---- MODULE Spec2Model ----
(***************************************************************************)
(* The minesweeper board engine of src/src/minesweeper.rs (GameBoard) as a *)
(* state machine: the board's fields, one action per public operation, the *)
(* placement loop of populate_mines_around one random draw per step; and   *)
(* the application of src/src/main.rs (MinesOfRustApp), one frame per step.*)
(***************************************************************************)
EXTENDS Integers, Sequences, FiniteSets, TLC

VARIABLES
    width, height,      \* GameBoard.width, GameBoard.height
    num_mines,          \* GameBoard.num_mines
    squares,            \* GameBoard.squares: index (0-based, row-major) -> Square
    is_populated,       \* GameBoard.is_populated
    pc,                 \* "idle", "placing" (inside populate_mines_around's loop), "aborted" (panic)
    arg_n,              \* populate_mines_around's parameter num_mines
    keep_clear,         \* populate_mines_around's parameter keep_clear
    mines_placed,       \* populate_mines_around's local mines_placed
    fresh,              \* whether the running populate call started on a board as new() builds it
    last,               \* the last call that returned: its name, arguments and result
    game_state,         \* MinesOfRustApp.game_state
    detonated_on        \* MinesOfRustApp.detonated_on

vars == <<width, height, num_mines, squares, is_populated,
          pc, arg_n, keep_clear, mines_placed, fresh, last,
          game_state, detonated_on>>

board == <<width, height, num_mines, squares, is_populated>>
locals == <<pc, arg_n, keep_clear, mines_placed, fresh>>
app == <<game_state, detonated_on>>

----------------------------------------------------------------------------
(* Bounds of the model *)

\* Board sizes of the placement specification (PopSpec).
PopDims == {<<1, 1>>, <<2, 1>>, <<1, 2>>, <<2, 2>>}

\* Board size and mine count of the numeral specification (NumSpec): the
\* smallest board on which the placement loop can surround a mine by 8 mines.
NumDims == {<<4, 3>>}
NumMines == 9

----------------------------------------------------------------------------
(* Values *)

None == [some |-> FALSE]
Some(x, y) == [some |-> TRUE, x |-> x, y |-> y]

\* impl Default for Square
DefaultSquare ==
    [is_revealed |-> FALSE, is_flagged |-> FALSE, numeral |-> 0, square_type |-> "Empty"]

\* Square::default_mine
DefaultMine ==
    [is_revealed |-> FALSE, is_flagged |-> FALSE, numeral |-> 0, square_type |-> "Mine"]

\* Square::is_mine
IsMine(s) == s.square_type = "Mine"

\* Result<_, Error> and PlayResult
Ok == [tag |-> "Ok"]
Err(e) == [tag |-> "Err", err |-> e]
NoChange == [tag |-> "NoChange"]
Flagged(b) == [tag |-> "Flagged", flag |-> b]
Explosion(x, y) == [tag |-> "Explosion", x |-> x, y |-> y]
Revealed(x, y) == [tag |-> "Revealed", x |-> x, y |-> y]
CascadedReveal(rs) == [tag |-> "CascadedReveal", results |-> rs]

NoCall == [op |-> "new"]

----------------------------------------------------------------------------
(* Addressing *)

\* squares.len()
Len0(sq) == Cardinality(DOMAIN sq)

\* GameBoard::new's squares
NewSquares(w, h) == [i \in 0..(w * h - 1) |-> DefaultSquare]

\* GameBoard::xy_to_idx
xy_to_idx(x, y) == y * width + x

\* GameBoard::idx_to_xy (for an index the caller has checked)
idx_to_xy(idx) == Some(idx % width, idx \div width)

\* a coordinate check on the index alone
InRange_by_index(x, y) == x >= 0 /\ y >= 0 /\ y * width + x < width * height

\* the range check every public operation starts with
InRange(x, y) == ~(x >= width \/ y >= height)

\* GameBoard::is_mine_protected
is_mine_protected(sq, x, y) ==
    IF x < 0 THEN FALSE
    ELSE IF y < 0 THEN FALSE
    ELSE IF InRange(x, y) THEN IsMine(sq[xy_to_idx(x, y)])
    ELSE FALSE

\* the offsets in the order dy outer, dx inner
Offsets_dy_outer == [k \in 0..8 |-> <<(k % 3) - 1, (k \div 3) - 1>>]

\* the 9 offsets of iproduct!(-1..2, -1..2), in its order: dx outer, dy inner
Offsets == [k \in 0..8 |-> <<(k \div 3) - 1, (k % 3) - 1>>]

RECURSIVE SumTo(_, _)
SumTo(f, k) == IF k < 0 THEN 0 ELSE f[k] + SumTo(f, k - 1)

\* GameBoard::mined_neighbor_count (for in-range x, y)
mined_neighbor_count(sq, x, y) ==
    SumTo([k \in 0..8 |->
             IF is_mine_protected(sq, x + Offsets[k][1], y + Offsets[k][2]) THEN 1 ELSE 0], 8)

\* the number of mine squares of the board
MineCount(sq) == Cardinality({i \in DOMAIN sq : IsMine(sq[i])})
MineSet(sq) == {i \in DOMAIN sq : IsMine(sq[i])}

----------------------------------------------------------------------------
(* Construction *)

InitDims(D) ==
    /\ \E d \in D : width = d[1] /\ height = d[2]
    /\ num_mines = 0
    /\ squares = NewSquares(width, height)
    /\ is_populated = FALSE
    /\ pc = "idle"
    /\ arg_n = 0
    /\ keep_clear = None
    /\ mines_placed = 0
    /\ fresh = FALSE
    /\ last = NoCall
    /\ game_state = "NotStarted"
    /\ detonated_on = None

----------------------------------------------------------------------------
(* populate_mines_around *)

IsNewBoard ==
    /\ squares = NewSquares(width, height)
    /\ num_mines = 0
    /\ is_populated = FALSE

\* the call up to the loop, with num_mines = n before the ExcessiveMines check
PopulateStart_num_mines_first(n, kc) ==
    /\ pc = "idle"
    /\ UNCHANGED app
    /\ num_mines' = n
    /\ IF n > width * height
       THEN /\ last' = [op |-> "populate_mines_around", n |-> n, kc |-> kc,
                        fresh |-> IsNewBoard, res |-> Err("ExcessiveMines")]
            /\ UNCHANGED <<width, height, squares, is_populated, locals>>
       ELSE /\ pc' = "placing"
            /\ arg_n' = n
            /\ keep_clear' = kc
            /\ mines_placed' = 0
            /\ fresh' = IsNewBoard
            /\ UNCHANGED <<width, height, squares, is_populated, last>>

\* the call up to the loop: the ExcessiveMines check and num_mines = n
PopulateStart(n, kc) ==
    /\ pc = "idle"
    /\ UNCHANGED app
    /\ IF n > width * height
       THEN /\ last' = [op |-> "populate_mines_around", n |-> n, kc |-> kc,
                        fresh |-> IsNewBoard, res |-> Err("ExcessiveMines")]
            /\ UNCHANGED <<board, locals>>
       ELSE /\ num_mines' = n
            /\ pc' = "placing"
            /\ arg_n' = n
            /\ keep_clear' = kc
            /\ mines_placed' = 0
            /\ fresh' = IsNewBoard
            /\ UNCHANGED <<width, height, squares, is_populated, last>>

\* (mutant) the loop body without the keep_clear test
Places_ignoring_keep_clear(sq, kc, idx) == ~IsMine(sq[idx])

\* whether the loop body places a mine at the drawn index
Places(sq, kc, idx) ==
    IF kc.some
    THEN ~IsMine(sq[idx]) /\ kc # idx_to_xy(idx)
    ELSE ~IsMine(sq[idx])

\* the values of gen_range(0..self.squares.len() - 1): the upper end is excluded
DrawRange(sq) == 0..(Len0(sq) - 2)

\* one pass of the loop with the draw gen_range(0..len-1) giving idx
PopulateDraw(idx) ==
    /\ pc = "placing"
    /\ UNCHANGED app
    /\ mines_placed < arg_n
    /\ idx \in DrawRange(squares)
    /\ IF Places(squares, keep_clear, idx)
       THEN /\ squares' = [squares EXCEPT ![idx] = DefaultMine]
            /\ mines_placed' = mines_placed + 1
       ELSE UNCHANGED <<squares, mines_placed>>
    /\ UNCHANGED <<width, height, num_mines, is_populated, pc, arg_n, keep_clear, fresh, last>>

\* gen_range panics on the empty range 0..0 of a board of one square
PopulateAbort ==
    /\ pc = "placing"
    /\ UNCHANGED app
    /\ mines_placed < arg_n
    /\ Len0(squares) - 1 = 0
    /\ pc' = "aborted"
    /\ UNCHANGED <<board, arg_n, keep_clear, mines_placed, fresh, last>>

\* the loop's exit: is_populated = true; Ok(())
PopulateFinish ==
    /\ pc = "placing"
    /\ UNCHANGED app
    /\ ~(mines_placed < arg_n)
    /\ is_populated' = TRUE
    /\ pc' = "idle"
    /\ last' = [op |-> "populate_mines_around", n |-> arg_n, kc |-> keep_clear,
                fresh |-> fresh, res |-> Ok]
    /\ arg_n' = 0
    /\ keep_clear' = None
    /\ mines_placed' = 0
    /\ fresh' = FALSE
    /\ UNCHANGED <<width, height, num_mines, squares>>

----------------------------------------------------------------------------
(* populate_numerals *)

\* a count that misses the neighbour up and to the left
Numerals_missing_corner(sq) ==
    [i \in DOMAIN sq |->
        [sq[i] EXCEPT !.numeral =
            mined_neighbor_count(sq, i % width, i \div width)
            - (IF /\ i % width > 0
                  /\ i \div width > 0
                  /\ IsMine(sq[xy_to_idx((i % width) - 1, (i \div width) - 1)])
               THEN 1 ELSE 0)]]

Numerals(sq) ==
    [i \in DOMAIN sq |->
        [sq[i] EXCEPT !.numeral = mined_neighbor_count(sq, i % width, i \div width)]]

PopulateNumerals ==
    /\ pc = "idle"
    /\ UNCHANGED app
    /\ squares' = Numerals(squares)
    /\ last' = [op |-> "populate_numerals", res |-> Ok]
    /\ UNCHANGED <<width, height, num_mines, is_populated, locals>>

----------------------------------------------------------------------------
(* flag, reveal, cascade_from, chord, play *)

\* GameBoard::is_flagged_protected
is_flagged_protected(sq, x, y) ==
    IF x < 0 THEN FALSE
    ELSE IF y < 0 THEN FALSE
    ELSE IF InRange(x, y) THEN sq[xy_to_idx(x, y)].is_flagged
    ELSE FALSE

\* GameBoard::flagged_neighbor_count (for in-range x, y)
flagged_neighbor_count(sq, x, y) ==
    SumTo([k \in 0..8 |->
             IF is_flagged_protected(sq, x + Offsets[k][1], y + Offsets[k][2]) THEN 1 ELSE 0], 8)

\* GameBoard::get_square
get_square(sq, x, y) ==
    IF ~InRange(x, y) THEN Err("InvalidCoordinates")
    ELSE [tag |-> "Ok", val |-> sq[xy_to_idx(x, y)]]

\* GameBoard::can_chord_square (for in-range x, y)
can_chord_square(sq, x, y) ==
    LET sqr == sq[xy_to_idx(x, y)]
    IN  sqr.numeral = 0 \/ sqr.numeral = flagged_neighbor_count(sq, x, y)

\* GameBoard::can_chord_square, with its coordinate check
can_chord_square_result(sq, x, y) ==
    IF ~InRange(x, y) THEN Err("InvalidCoordinates")
    ELSE [tag |-> "Ok", val |-> can_chord_square(sq, x, y)]

\* What a call works on and hands back: the squares, its result, and the record
\* of what it did: trace lists, in order, every write of is_revealed = true
\* (<<"mark", idx, value before>>) and every square cascade_from expanded
\* (<<"expand", idx>>); div says that the recursion went deeper than Fuel.
Outcome(sq, res, trace, div) == [sq |-> sq, res |-> res, trace |-> trace, div |-> div]

\* the start of a call on squares sq
Call(sq) == Outcome(sq, NoChange, <<>>, FALSE)

\* the call st returning res, nothing written
Return(st, res) == [st EXCEPT !.res = res]

\* self.squares[idx].is_revealed = true, then returning res
Mark(st, idx, res) ==
    [st EXCEPT !.sq[idx].is_revealed = TRUE,
               !.trace = Append(@, <<"mark", idx, st.sq[idx].is_revealed>>),
               !.res = res]

\* No chain of nested cascade_from calls that each reveal a new square is
\* longer than the board (plus the directly called one).
Fuel == width * height + 1

\* flag without its is_revealed check
flag_ignoring_revealed(st, x, y) ==
    IF ~InRange(x, y)
    THEN Return(st, Err("InvalidCoordinates"))
    ELSE LET idx == xy_to_idx(x, y)
             sqr == st.sq[idx]
         IN  [st EXCEPT !.sq[idx].is_flagged = ~sqr.is_flagged,
                         !.res = Flagged(~sqr.is_flagged)]

\* flag that only ever sets the flag
flag_never_clearing(st, x, y) ==
    IF ~InRange(x, y)
    THEN Return(st, Err("InvalidCoordinates"))
    ELSE LET idx == xy_to_idx(x, y)
             sqr == st.sq[idx]
         IN  IF ~sqr.is_revealed
             THEN [st EXCEPT !.sq[idx].is_flagged = TRUE, !.res = Flagged(TRUE)]
             ELSE Return(st, NoChange)

\* flag that answers for a revealed square with its flag state
flag_reporting_revealed(st, x, y) ==
    IF ~InRange(x, y)
    THEN Return(st, Err("InvalidCoordinates"))
    ELSE LET idx == xy_to_idx(x, y)
             sqr == st.sq[idx]
         IN  IF ~sqr.is_revealed
             THEN [st EXCEPT !.sq[idx].is_flagged = ~sqr.is_flagged,
                             !.res = Flagged(~sqr.is_flagged)]
             ELSE Return(st, Flagged(sqr.is_flagged))

\* GameBoard::flag
flag(st, x, y) ==
    IF ~InRange(x, y)
    THEN Return(st, Err("InvalidCoordinates"))
    ELSE LET idx == xy_to_idx(x, y)
             sqr == st.sq[idx]
         IN  IF ~sqr.is_revealed
             THEN [st EXCEPT !.sq[idx].is_flagged = ~sqr.is_flagged,
                             !.res = Flagged(~sqr.is_flagged)]
             ELSE Return(st, NoChange)

RECURSIVE reveal(_, _, _, _)
RECURSIVE reveal_protected(_, _, _, _)
RECURSIVE reveal_each(_, _, _, _)
RECURSIVE cascade_from(_, _, _, _)
RECURSIVE reveal_range(_, _, _, _, _, _)

\* the map over iproduct!(-1..2, -1..2) of cascade_from and chord: the nine
\* reveal_protected calls in its order, each on the squares the one before left;
\* res is the list of their results
reveal_range(st, x, y, lo, hi, fuel) ==
    IF lo = hi
    THEN LET r == reveal_protected(st, x + Offsets[lo][1], y + Offsets[lo][2], fuel)
         IN  Return(r, <<r.res>>)
    ELSE LET mid == (lo + hi) \div 2
             left == reveal_range(st, x, y, lo, mid, fuel)
             right == reveal_range(left, x, y, mid + 1, hi, fuel)
         IN  IF left.div THEN left ELSE Return(right, left.res \o right.res)

\* the map over dx = -1 and dx = 0 only
reveal_each_two_columns(st, x, y, fuel) == reveal_range(st, x, y, 0, 5, fuel)

reveal_each(st, x, y, fuel) == reveal_range(st, x, y, 0, 8, fuel)

\* cascade_from without its write of is_revealed
cascade_from_unmarked(st, x, y, fuel) ==
    IF ~InRange(x, y)
    THEN Return(st, Err("InvalidCoordinates"))
    ELSE LET idx == xy_to_idx(x, y)
         IN  IF IsMine(st.sq[idx]) \/ st.sq[idx].is_flagged \/ st.sq[idx].numeral > 0
             THEN Return(st, Err("InvalidCascade"))
             ELSE IF fuel = 0
             THEN [st EXCEPT !.div = TRUE, !.res = NoChange]
             ELSE LET r == reveal_each([st EXCEPT !.trace = Append(@, <<"expand", idx>>)],
                                       x, y, fuel - 1)
                  IN  Return(r, CascadedReveal(r.res))

\* cascade_from without the is_flagged test on its origin
cascade_from_ignoring_flag(st, x, y, fuel) ==
    IF ~InRange(x, y)
    THEN Return(st, Err("InvalidCoordinates"))
    ELSE LET idx == xy_to_idx(x, y)
         IN  IF IsMine(st.sq[idx]) \/ st.sq[idx].numeral > 0
             THEN Return(st, Err("InvalidCascade"))
             ELSE IF fuel = 0
             THEN [st EXCEPT !.div = TRUE, !.res = NoChange]
             ELSE LET marked == Mark(st, idx, NoChange)
                      r == reveal_each([marked EXCEPT !.trace = Append(@, <<"expand", idx>>)],
                                       x, y, fuel - 1)
                  IN  Return(r, CascadedReveal(r.res))

\* GameBoard::cascade_from
cascade_from(st, x, y, fuel) ==
    IF ~InRange(x, y)
    THEN Return(st, Err("InvalidCoordinates"))
    ELSE LET idx == xy_to_idx(x, y)
         IN  IF IsMine(st.sq[idx]) \/ st.sq[idx].is_flagged \/ st.sq[idx].numeral > 0
             THEN Return(st, Err("InvalidCascade"))
             ELSE IF fuel = 0
             THEN [st EXCEPT !.div = TRUE, !.res = NoChange]
             ELSE LET marked == Mark(st, idx, NoChange)
                      r == reveal_each([marked EXCEPT !.trace = Append(@, <<"expand", idx>>)],
                                       x, y, fuel - 1)
                  IN  Return(r, CascadedReveal(r.res))

\* reveal without the write of is_revealed in its mine branch
reveal_explosion_unmarked(st, x, y, fuel) ==
    IF ~InRange(x, y)
    THEN Return(st, Err("InvalidCoordinates"))
    ELSE LET idx == xy_to_idx(x, y)
             sqr == st.sq[idx]
         IN  IF IsMine(sqr) /\ ~sqr.is_flagged
             THEN Return(st, Explosion(x, y))
             ELSE IF ~IsMine(sqr) /\ ~sqr.is_flagged /\ ~sqr.is_revealed
             THEN IF sqr.numeral = 0
                  THEN cascade_from(st, x, y, fuel)
                  ELSE Mark(st, idx, Revealed(x, y))
             ELSE Return(st, NoChange)

\* reveal that reports a single revealed square as (y, x)
reveal_swapping_coordinate(st, x, y, fuel) ==
    IF ~InRange(x, y)
    THEN Return(st, Err("InvalidCoordinates"))
    ELSE LET idx == xy_to_idx(x, y)
             sqr == st.sq[idx]
         IN  IF IsMine(sqr) /\ ~sqr.is_flagged
             THEN Mark(st, idx, Explosion(x, y))
             ELSE IF ~IsMine(sqr) /\ ~sqr.is_flagged /\ ~sqr.is_revealed
             THEN IF sqr.numeral = 0
                  THEN cascade_from(st, x, y, fuel)
                  ELSE Mark(st, idx, Revealed(y, x))
             ELSE Return(st, NoChange)

\* a reveal that does not look at is_flagged
reveal_ignoring_flags(st, x, y, fuel) ==
    IF ~InRange(x, y)
    THEN Return(st, Err("InvalidCoordinates"))
    ELSE LET idx == xy_to_idx(x, y)
             sqr == st.sq[idx]
         IN  IF IsMine(sqr)
             THEN Mark(st, idx, Explosion(x, y))
             ELSE IF ~sqr.is_revealed
             THEN IF sqr.numeral = 0
                  THEN cascade_from(st, x, y, fuel)
                  ELSE Mark(st, idx, Revealed(x, y))
             ELSE Return(st, NoChange)

\* a reveal that takes the flag off a flagged square and reveals it
reveal_unflagging(st, x, y, fuel) ==
    IF ~InRange(x, y)
    THEN Return(st, Err("InvalidCoordinates"))
    ELSE LET idx == xy_to_idx(x, y)
             sqr == st.sq[idx]
             un == [st EXCEPT !.sq[idx].is_flagged = FALSE]
         IN  IF IsMine(sqr) /\ ~sqr.is_flagged
             THEN Mark(st, idx, Explosion(x, y))
             ELSE IF ~IsMine(sqr) /\ ~sqr.is_revealed
             THEN IF sqr.numeral = 0
                  THEN cascade_from(un, x, y, fuel)
                  ELSE Mark(un, idx, Revealed(x, y))
             ELSE Return(st, NoChange)

\* GameBoard::reveal
reveal(st, x, y, fuel) ==
    IF ~InRange(x, y)
    THEN Return(st, Err("InvalidCoordinates"))
    ELSE LET idx == xy_to_idx(x, y)
             sqr == st.sq[idx]
         IN  IF IsMine(sqr) /\ ~sqr.is_flagged
             THEN Mark(st, idx, Explosion(x, y))
             ELSE IF ~IsMine(sqr) /\ ~sqr.is_flagged /\ ~sqr.is_revealed
             THEN IF sqr.numeral = 0
                  THEN cascade_from(st, x, y, fuel)
                  ELSE Mark(st, idx, Revealed(x, y))
             ELSE Return(st, NoChange)

\* GameBoard::reveal_protected (nothing more is run once the recursion is cut)
reveal_protected(st, x, y, fuel) ==
    IF st.div THEN Return(st, NoChange)
    ELSE IF x < 0 THEN Return(st, NoChange)
    ELSE IF y < 0 THEN Return(st, NoChange)
    ELSE LET r == reveal(st, x, y, fuel)
         IN  IF r.res.tag = "Err" THEN Return(r, NoChange) ELSE r

\* a chord that stops after the first two columns of the neighbourhood
chord_two_columns(st, x, y) ==
    IF ~InRange(x, y)
    THEN Return(st, Err("InvalidCoordinates"))
    ELSE IF ~can_chord_square(st.sq, x, y)
    THEN Return(st, NoChange)
    ELSE LET r == reveal_range(st, x, y, 0, 5, Fuel)
         IN  Return(r, CascadedReveal(r.res))

\* a chord that wraps its results in one more CascadedReveal
chord_nested(st, x, y) ==
    IF ~InRange(x, y)
    THEN Return(st, Err("InvalidCoordinates"))
    ELSE IF ~can_chord_square(st.sq, x, y)
    THEN Return(st, NoChange)
    ELSE LET r == reveal_each(st, x, y, Fuel)
         IN  Return(r, CascadedReveal(<<CascadedReveal(r.res)>>))

\* GameBoard::chord
chord(st, x, y) ==
    IF ~InRange(x, y)
    THEN Return(st, Err("InvalidCoordinates"))
    ELSE IF ~can_chord_square(st.sq, x, y)
    THEN Return(st, NoChange)
    ELSE LET r == reveal_each(st, x, y, Fuel)
         IN  Return(r, CascadedReveal(r.res))

\* enum RevealType
RevealType == {"Reveal", "Chord", "Flag"}

\* GameBoard::play
play(sq, x, y, reveal_type) ==
    CASE reveal_type = "Flag" -> flag(Call(sq), x, y)
      [] reveal_type = "Reveal" -> reveal(Call(sq), x, y, Fuel)
      [] reveal_type = "Chord" -> chord(Call(sq), x, y)

\* is_win_configuration without its is_mine test
is_win_configuration_all_revealed(sq) ==
    Cardinality({i \in DOMAIN sq : ~sq[i].is_revealed}) = 0

\* GameBoard::is_win_configuration
is_win_configuration(sq) ==
    Cardinality({i \in DOMAIN sq : ~IsMine(sq[i]) /\ ~sq[i].is_revealed}) = 0

\* GameBoard::is_loss_configuration
is_loss_configuration(sq) ==
    Cardinality({i \in DOMAIN sq : IsMine(sq[i]) /\ sq[i].is_revealed}) > 0

\* a call of play(x, y, reveal_type)
Play(x, y, reveal_type) ==
    /\ pc = "idle"
    /\ UNCHANGED app
    /\ LET r == play(squares, x, y, reveal_type)
       IN  /\ squares' = r.sq
           /\ last' = [op |-> reveal_type, x |-> x, y |-> y,
                       res |-> r.res, trace |-> r.trace, div |-> r.div]
    /\ UNCHANGED <<width, height, num_mines, is_populated, locals>>

\* a direct call of the public cascade_from(x, y)
CascadeFrom(x, y) ==
    /\ pc = "idle"
    /\ UNCHANGED app
    /\ LET r == cascade_from(Call(squares), x, y, Fuel)
       IN  /\ squares' = r.sq
           /\ last' = [op |-> "cascade_from", x |-> x, y |-> y,
                       res |-> r.res, trace |-> r.trace, div |-> r.div]
    /\ UNCHANGED <<width, height, num_mines, is_populated, locals>>

----------------------------------------------------------------------------
(* lifecycle helpers *)

\* GameBoard::reset
Reset ==
    /\ pc = "idle"
    /\ UNCHANGED app
    /\ squares' = [i \in 0..(width * height - 1) |-> DefaultSquare]
    /\ last' = [op |-> "reset"]
    /\ UNCHANGED <<width, height, num_mines, is_populated, locals>>

\* a reset_existing that clears the numerals too
reset_existing_clearing_numerals(sq) ==
    [i \in DOMAIN sq |->
        [sq[i] EXCEPT !.is_flagged = FALSE, !.is_revealed = FALSE, !.numeral = 0]]

\* GameBoard::reset_existing, on the squares
reset_existing(sq) ==
    [i \in DOMAIN sq |-> [sq[i] EXCEPT !.is_flagged = FALSE, !.is_revealed = FALSE]]

\* a call of reset_existing()
ResetExisting ==
    /\ pc = "idle"
    /\ UNCHANGED app
    /\ squares' = reset_existing(squares)
    /\ last' = [op |-> "reset_existing"]
    /\ UNCHANGED <<width, height, num_mines, is_populated, locals>>

\* a flag_all_mines that flags every square
flag_all_squares(sq) ==
    [i \in DOMAIN sq |-> [sq[i] EXCEPT !.is_flagged = TRUE]]

\* GameBoard::flag_all_mines, on the squares
flag_all_mines(sq) ==
    [i \in DOMAIN sq |-> [sq[i] EXCEPT !.is_flagged = IsMine(sq[i])]]

\* a call of flag_all_mines()
FlagAllMines ==
    /\ pc = "idle"
    /\ UNCHANGED app
    /\ squares' = flag_all_mines(squares)
    /\ last' = [op |-> "flag_all_mines"]
    /\ UNCHANGED <<width, height, num_mines, is_populated, locals>>

\* GameBoard::num_flags
num_flags(sq) == Cardinality({i \in DOMAIN sq : sq[i].is_flagged})

----------------------------------------------------------------------------
(* The application: MinesOfRustApp (main.rs) *)

\* GameSettings of the model: width and height of the board and num_mines.
\* use_numerals is true in every GameSettings of state.rs; left_click_chord
\* keeps its default, false.
UiDims == {<<2, 2>>}
UiMines == 1

\* a game_ended that forgets EndedWin
game_ended_loss_only(gs) == gs = "EndedLoss"

\* GameState::game_ended
game_ended(gs) == gs = "EndedLoss" \/ gs = "EndedWin"

\* The application's fields that a frame reads and writes, and what the frame
\* did: started (start_game ran), res (what play returned) and status (the
\* branch status_ui took).
MinesOfRustApp ==
    [sq |-> squares, nm |-> num_mines, pop |-> is_populated,
     gs |-> game_state, det |-> detonated_on,
     started |-> FALSE, res |-> NoCall, status |-> "none"]

\* MinesOfRustApp::reset_new_game
reset_new_game(a) ==
    [a EXCEPT !.sq = NewSquares(width, height), !.nm = 0, !.pop = FALSE,
              !.gs = "NotStarted", !.det = None]

\* MinesOfRustApp::reset_existing_game
reset_existing_game(a) ==
    [a EXCEPT !.sq = reset_existing(a.sq), !.gs = "NotStarted"]

\* the top panel of on_update: Ctrl+N, Ctrl+R or a click on the face
Keys == {"none", "ctrl_n", "ctrl_r", "face"}

top_panel(a, key) ==
    CASE key = "ctrl_n" -> reset_new_game(a)
      [] key = "ctrl_r" -> reset_existing_game(a)
      [] key = "face" -> reset_new_game(a)
      [] OTHER -> a

\* The boards populate_mines_around(n, kc) can return on sq: the loop ends
\* once n draws have placed a mine, each on a drawn index that Places accepts.
Placements(sq, n, kc) ==
    {M \in SUBSET {idx \in DrawRange(sq) : Places(sq, kc, idx)} : Cardinality(M) = n}

\* MinesOfRustApp::start_game, the placement loop having placed mines on M
start_game(a, x, y, M) ==
    LET placed == IF ~a.pop
                  THEN [a EXCEPT !.sq = [i \in DOMAIN a.sq |->
                                            IF i \in M THEN DefaultMine ELSE a.sq[i]],
                                 !.nm = UiMines, !.pop = TRUE]
                  ELSE a
    IN  [placed EXCEPT !.gs = "Playing", !.sq = Numerals(placed.sq), !.started = TRUE]

\* MinesOfRustApp::first_losing_square_of_vec
first_losing_square_of_vec(rs) ==
    LET hits == {k \in DOMAIN rs : rs[k].tag = "Explosion"}
    IN  IF hits = {} THEN None
        ELSE LET k == CHOOSE h \in hits : \A g \in hits : h <= g
             IN  Some(rs[k].x, rs[k].y)

\* MinesOfRustApp::first_losing_square
first_losing_square(res) ==
    CASE res.tag = "Explosion" -> Some(res.x, res.y)
      [] res.tag = "CascadedReveal" -> first_losing_square_of_vec(res.results)
      [] OTHER -> None

\* a click of the frame: no click, or a button on the square (x, y)
Buttons == {"Primary", "Middle", "Secondary"}
NoClick == [some |-> FALSE]
ClickOn(x, y, button) == [some |-> TRUE, x |-> x, y |-> y, button |-> button]

\* the play_type game_board_ui chooses for a click
play_type(active, button) ==
    IF active /\ button = "Primary" THEN "Reveal"
    ELSE IF active /\ button = "Middle" THEN "Chord"
    ELSE IF button = "Secondary" /\ active THEN "Flag"
    ELSE "None"

\* MinesOfRustApp::game_board_ui for the square that was clicked
game_board_ui(a, active, click, M) ==
    IF ~click.some THEN a
    ELSE LET b == IF click.button = "Primary" /\ a.gs = "NotStarted"
                  THEN start_game(a, click.x, click.y, M)
                  ELSE a
             p == play_type(active, click.button)
         IN  IF p = "None" THEN b
             ELSE LET r == play(b.sq, click.x, click.y, p)
                      c == first_losing_square(r.res)
                  IN  [b EXCEPT !.sq = r.sq, !.res = r.res,
                                !.det = IF c.some THEN c ELSE b.det]

\* a status_ui that tests the win first
status_ui_win_first(a) ==
    IF a.gs = "Playing" /\ is_win_configuration(a.sq)
    THEN [a EXCEPT !.gs = "EndedWin", !.sq = flag_all_mines(a.sq), !.status = "win"]
    ELSE IF a.gs = "Playing" /\ is_loss_configuration(a.sq)
    THEN [a EXCEPT !.gs = "EndedLoss", !.status = "loss"]
    ELSE a

\* MinesOfRustApp::status_ui
status_ui(a) ==
    IF a.gs = "Playing" /\ is_loss_configuration(a.sq)
    THEN [a EXCEPT !.gs = "EndedLoss", !.status = "loss"]
    ELSE IF a.gs = "Playing" /\ is_win_configuration(a.sq)
    THEN [a EXCEPT !.gs = "EndedWin", !.sq = flag_all_mines(a.sq), !.status = "win"]
    ELSE a

\* MinesOfRustApp::on_update: one frame, with the key and the click it
\* receives: the top panel, the board, then the status panel.  last keeps
\* the frame's input, what it did, and the board and game_state that
\* status_ui found.
OnUpdate(key, click, M) ==
    /\ pc = "idle"
    /\ LET top == top_panel(MinesOfRustApp, key)
           active == ~game_ended(top.gs)
           central == game_board_ui(top, active, click, M)
           bottom == status_ui(central)
       IN  /\ squares' = bottom.sq
           /\ num_mines' = bottom.nm
           /\ is_populated' = bottom.pop
           /\ game_state' = bottom.gs
           /\ detonated_on' = bottom.det
           /\ last' = [op |-> "on_update", key |-> key, click |-> click,
                       started |-> bottom.started, res |-> bottom.res,
                       status |-> bottom.status,
                       checked |-> [gs |-> central.gs, sq |-> central.sq]]
    /\ UNCHANGED <<width, height, locals>>

----------------------------------------------------------------------------
(* Specifications *)

Coords == {None} \cup {Some(x, y) : x \in 0..(width - 1), y \in 0..(height - 1)}

\* Placement on every small board, every mine count and every keep_clear.
PopInit == InitDims(PopDims)

PopNext ==
    \/ \E n \in 0..(width * height + 1), kc \in Coords : PopulateStart(n, kc)
    \/ \E idx \in 0..(width * height - 1) : PopulateDraw(idx)
    \/ PopulateAbort
    \/ PopulateFinish
    \/ PopulateNumerals
    \/ Reset
    \/ ResetExisting
    \/ FlagAllMines

PopSpec == PopInit /\ [][PopNext]_vars

\* Placement of NumMines mines on the 4x3 board, then the numerals.
NumInit == InitDims(NumDims)

NumNext ==
    \/ ~is_populated /\ PopulateStart(NumMines, None)
    \/ \E idx \in 0..(width * height - 1) : PopulateDraw(idx)
    \/ PopulateFinish
    \/ PopulateNumerals

NumSpec == NumInit /\ [][NumNext]_vars

\* The coordinates a caller passes: every square of the board, and one
\* coordinate past each edge.
BoardCoords == {<<x, y>> : x \in 0..(width - 1), y \in 0..(height - 1)}

CallCoords == BoardCoords \cup {<<width, 0>>, <<0, height>>}

\* populate_numerals has been run on the mines as they are
NumeralsComputed == squares = Numerals(squares)

\* Play on small boards: construction, placement (as start_game calls it: only
\* on a board that is not populated), populate_numerals, play in its three
\* modes and cascade_from, in any order.
PlayDims == {<<2, 2>>, <<3, 1>>}
MaxMines == 2

Init == InitDims(PlayDims)

Next ==
    \/ \E n \in 1..MaxMines, kc \in {None, Some(0, 0)} : ~is_populated /\ PopulateStart(n, kc)
    \/ \E idx \in 0..(width * height - 1) : PopulateDraw(idx)
    \/ PopulateFinish
    \/ PopulateNumerals
    \/ \E c \in CallCoords, m \in RevealType : Play(c[1], c[2], m)
    \/ \E c \in CallCoords : CascadeFrom(c[1], c[2])

Spec == Init /\ [][Next]_vars

\* Play on a board with room for a flood fill, run as new_populated_around and
\* start_game run it: the mines are placed, populate_numerals follows, then plays.
GameDims == {<<3, 3>>}
GameMines == 1
GameDraws == {0, 1}
GameFlags == {<<0, 0>>, <<1, 2>>}

GameInit == InitDims(GameDims)

GameReady == pc = "idle" /\ is_populated /\ last.op # "populate_mines_around"

GameNext ==
    \/ ~is_populated /\ PopulateStart(GameMines, None)
    \/ \E idx \in GameDraws : PopulateDraw(idx)
    \/ PopulateFinish
    \/ last.op = "populate_mines_around" /\ PopulateNumerals
    \/ GameReady /\ \E c \in BoardCoords, m \in {"Reveal", "Chord"} : Play(c[1], c[2], m)
    \/ GameReady /\ \E c \in GameFlags : Play(c[1], c[2], "Flag")

GameSpec == GameInit /\ [][GameNext]_vars

\* The application: frames of on_update on the board of the settings.  A
\* frame receives a key or a click (or neither); the mines a starting click
\* places are any set the placement loop can end with.
UiInit == InitDims(UiDims)

UiClicks == {NoClick} \cup {ClickOn(c[1], c[2], b) : c \in BoardCoords, b \in Buttons}

UiNext ==
    \E key \in Keys, click \in UiClicks :
        /\ key = "none" \/ click = NoClick
        /\ LET top == top_panel(MinesOfRustApp, key)
               kc == IF click.some THEN Some(click.x, click.y) ELSE None
           IN  IF click.some /\ click.button = "Primary"
                  /\ top.gs = "NotStarted" /\ ~top.pop
               THEN \E M \in Placements(top.sq, UiMines, kc) : OnUpdate(key, click, M)
               ELSE OnUpdate(key, click, {})

UiSpec == UiInit /\ [][UiNext]_vars

----------------------------------------------------------------------------
(* Claims on placement and numerals *)

\* the number of in-grid 8-neighbours of square i that are mines, i itself left out
TrueNeighbourMines(sq, i) ==
    Cardinality({j \in DOMAIN sq :
        /\ j # i
        /\ IsMine(sq[j])
        /\ (j % width) - (i % width) \in {-1, 0, 1}
        /\ (j \div width) - (i \div width) \in {-1, 0, 1}})

PopulateReturnedOk ==
    /\ pc = "idle"
    /\ last.op = "populate_mines_around"
    /\ last.res = Ok

\* C1: when populate_mines_around(n, kc) on a freshly constructed board returns
\* Ok, exactly n squares are mines, num_mines = n, is_populated is true, and the
\* keep_clear square, if given, is not a mine.
C1_PopulateOk ==
    (PopulateReturnedOk /\ last.fresh) =>
        /\ MineCount(squares) = last.n
        /\ num_mines = last.n
        /\ is_populated
        /\ last.kc.some => ~IsMine(squares[xy_to_idx(last.kc.x, last.kc.y)])

\* C1's case: two mines placed on the fresh 2x2 board around keep_clear (0,0)
C1_Witness ==
    /\ PopulateReturnedOk /\ last.fresh
    /\ width = 2 /\ height = 2
    /\ last.n = 2 /\ last.kc = Some(0, 0)

\* C2 (as stated): populate_mines_around(n, None) on a fresh board with
\* n <= W*H always finishes with Ok. With a random source that keeps producing
\* every index it can produce, that is: the call never aborts, and while mines
\* are still to be placed some index the source can produce takes a mine.
C2_PlacementTerminates ==
    (pc # "idle" /\ fresh /\ ~keep_clear.some) =>
        /\ pc # "aborted"
        /\ mines_placed < arg_n =>
              \E idx \in 0..(Len0(squares) - 2) : Places(squares, keep_clear, idx)

C3_MineCountKept ==
    pc = "idle" =>
        /\ num_mines <= width * height
        /\ is_populated => MineCount(squares) = num_mines

C3_MineSetKept ==
    [][(pc = "idle" /\ is_populated /\ pc' = "idle") => MineSet(squares') = MineSet(squares)]_vars

\* C3 (as stated): num_mines <= W*H; whenever is_populated, the number of mine
\* squares equals num_mines; once is_populated, the set of mine squares never
\* changes (between calls: pc = "idle").
C3_MinesInvariant == [](C3_MineCountKept) /\ C3_MineSetKept

\* C4 (as stated): after populate_numerals() every square, mine or not, has
\* numeral equal to the number of its in-grid 8-neighbours that are mines, the
\* square itself not counted.
C4_NumeralsAreNeighbourCounts ==
    (pc = "idle" /\ last.op = "populate_numerals") =>
        \A i \in DOMAIN squares : squares[i].numeral = TrueNeighbourMines(squares, i)

\* C5 (as stated): every square's numeral is between 0 and 8.
C5_NumeralRange ==
    \A i \in DOMAIN squares : squares[i].numeral \in 0..8

----------------------------------------------------------------------------
(* Claims on play *)

\* the last call was reveal(x, y) on a square of the board, and has returned
RevealReturned ==
    /\ pc = "idle"
    /\ last.op = "Reveal"
    /\ InRange(last.x, last.y)

\* the square the last call was made on
Target == squares[xy_to_idx(last.x, last.y)]

\* C6 (as stated): a reveal(x, y) that follows reveal(x, y) at once returns
\* NoChange and leaves the board as it is, whatever the first call returned.
C6_RevealIdempotent ==
    RevealReturned =>
        LET again == reveal(Call(squares), last.x, last.y, Fuel)
        IN  /\ again.res = NoChange
            /\ again.sq = squares

NoFlaggedRevealed ==
    \A i \in DOMAIN squares : ~(squares[i].is_flagged /\ squares[i].is_revealed)

FlaggedRevealIsNoChange ==
    (RevealReturned /\ Target.is_flagged) => last.res = NoChange

FlagLocks ==
    \A i \in DOMAIN squares :
        /\ squares[i].is_flagged => squares'[i].is_revealed = squares[i].is_revealed
        /\ squares[i].is_revealed => squares'[i].is_flagged = squares[i].is_flagged

\* C7: no square is ever both flagged and revealed; a direct reveal of a flagged
\* square returns NoChange; no step reveals a flagged square or changes the flag
\* of a revealed square.
C7_FlagLock == [](NoFlaggedRevealed /\ FlaggedRevealIsNoChange) /\ [][FlagLocks]_vars

\* C7's case: a reveal called on a flagged mine has returned
C7_Witness ==
    /\ RevealReturned
    /\ Target.is_flagged /\ IsMine(Target)
    /\ last.res = NoChange

\* C8: reveal on an unflagged mine of the board returns Explosion with that
\* coordinate, the square is revealed and is_loss_configuration() is true.
C8_MineExplodes ==
    (RevealReturned /\ IsMine(Target) /\ ~Target.is_flagged) =>
        /\ last.res = Explosion(last.x, last.y)
        /\ Target.is_revealed
        /\ is_loss_configuration(squares)

\* C8's case: the unflagged mine at (1,0) has been revealed
C8_Witness ==
    /\ RevealReturned
    /\ last.x = 1 /\ last.y = 0
    /\ IsMine(Target) /\ ~Target.is_flagged
    /\ last.res = Explosion(1, 0)

\* the numerals of the squares that are not mines are the true counts
NonMineNumeralsTrue(sq) ==
    \A i \in DOMAIN sq : ~IsMine(sq[i]) => sq[i].numeral = TrueNeighbourMines(sq, i)

\* squares i and j of the board touch (8-neighbours)
Adjacent(i, j) ==
    /\ i # j
    /\ (j % width) - (i % width) \in {-1, 0, 1}
    /\ (j \div width) - (i \div width) \in {-1, 0, 1}

RECURSIVE Flood(_, _)
\* the smallest set that contains S and, for each member of numeral 0, its
\* neighbours that are unrevealed and unflagged in sq
Flood(sq, S) ==
    LET T == S \cup {j \in DOMAIN sq :
                       /\ ~sq[j].is_revealed /\ ~sq[j].is_flagged
                       /\ \E i \in S : sq[i].numeral = 0 /\ Adjacent(i, j)}
    IN  IF T = S THEN S ELSE Flood(sq, T)

\* a step that is reveal(x, y) on an unrevealed, unflagged, non-mine square of
\* numeral 0, on a board whose non-mine numerals are the true counts, reveals
\* the squares of Flood and changes nothing else
FloodStep ==
    (/\ pc = "idle" /\ pc' = "idle"
     /\ last'.op = "Reveal"
     /\ InRange(last'.x, last'.y)
     /\ LET sqr == squares[xy_to_idx(last'.x, last'.y)]
        IN  ~sqr.is_revealed /\ ~sqr.is_flagged /\ ~IsMine(sqr) /\ sqr.numeral = 0
     /\ NonMineNumeralsTrue(squares))
    => LET S == Flood(squares, {xy_to_idx(last'.x, last'.y)})
       IN  squares' = [i \in DOMAIN squares |->
                          IF i \in S THEN [squares[i] EXCEPT !.is_revealed = TRUE]
                          ELSE squares[i]]

\* C9: on a board whose numerals (of the squares that are not mines) are the
\* true neighbour-mine counts, reveal(x, y) on an unrevealed, unflagged,
\* non-mine square of numeral 0 newly reveals exactly the flood-fill set S, and
\* every other square keeps its state.
C9_FloodFill == [][FloodStep]_vars

\* C9's case: on a board with a mine, a reveal has cascaded up to numbered
\* squares and has left a square of numeral 0 unrevealed behind a flag
C9_Witness ==
    /\ RevealReturned
    /\ last.res.tag = "CascadedReveal"
    /\ MineCount(squares) > 0
    /\ NonMineNumeralsTrue(squares)
    /\ \E i \in DOMAIN squares : squares[i].is_revealed /\ squares[i].numeral > 0
    /\ \E i \in DOMAIN squares : squares[i].is_flagged /\ ~IsMine(squares[i])
    /\ \E i \in DOMAIN squares :
          /\ ~IsMine(squares[i]) /\ squares[i].numeral = 0
          /\ ~squares[i].is_revealed /\ ~squares[i].is_flagged

\* the last call was a reveal, a chord or a cascade_from
CascadeReturned == last.op \in {"Reveal", "Chord", "cascade_from"}

\* the squares the last call turned from unrevealed to revealed, in order
NewlyRevealed ==
    LET fresh_mark(e) == e[1] = "mark" /\ e[3] = FALSE
    IN  SelectSeq(last.trace, fresh_mark)

\* the squares the last call expanded as cascade origins, in order
Expanded ==
    LET expand(e) == e[1] = "expand"
    IN  SelectSeq(last.trace, expand)

NoRepeat(seq) == \A i, j \in DOMAIN seq : i < j => seq[i] # seq[j]

\* C10: every reveal, chord and cascade_from call terminates (its recursion
\* never goes deeper than the board has squares), turns each square from
\* unrevealed to revealed at most once and expands each square as a cascade
\* origin at most once.
C10_CascadeTerminates ==
    CascadeReturned =>
        /\ ~last.div
        /\ NoRepeat(NewlyRevealed)
        /\ NoRepeat(Expanded)

\* C10's case: a cascade_from over uncomputed numerals has expanded three
\* squares and has revealed a mine on its way
C10_Witness ==
    /\ last.op = "cascade_from"
    /\ Len(Expanded) >= 3
    /\ \E k \in DOMAIN NewlyRevealed : IsMine(squares[NewlyRevealed[k][2]])

----------------------------------------------------------------------------
(* Claims on chord *)

\* the number of in-grid 8-neighbours of square i that are flagged, i itself left out
TrueFlaggedNeighbours(sq, i) ==
    Cardinality({j \in DOMAIN sq : Adjacent(i, j) /\ sq[j].is_flagged})

\* C11 (as stated): can_chord_square(x, y) is true exactly when the numeral is 0
\* or equals the number of flagged 8-neighbours, the square itself not counted.
C11_ChordableIff ==
    pc = "idle" =>
        \A c \in BoardCoords :
            LET i == xy_to_idx(c[1], c[2])
            IN  can_chord_square(squares, c[1], c[2]) <=>
                   \/ squares[i].numeral = 0
                   \/ squares[i].numeral = TrueFlaggedNeighbours(squares, i)

\* chord(x, y) is allowed: the coordinate is on the board and can_chord_square holds
ChordAllowed(sq, x, y) == InRange(x, y) /\ can_chord_square(sq, x, y)

\* C12 (as stated): an allowed chord(x, y) reveals only among the 8 neighbours:
\* when (x, y) is unrevealed and no neighbour has numeral 0, (x, y) is still
\* unrevealed afterwards and the CascadedReveal has no sub-result for (x, y).
C12_ChordSparesSelf ==
    pc = "idle" =>
        \A c \in BoardCoords :
            LET i == xy_to_idx(c[1], c[2])
                r == chord(Call(squares), c[1], c[2])
            IN  (/\ ChordAllowed(squares, c[1], c[2])
                 /\ ~squares[i].is_revealed
                 /\ \A j \in DOMAIN squares : Adjacent(i, j) => squares[j].numeral # 0)
                => /\ ~r.sq[i].is_revealed
                   /\ r.res.tag = "CascadedReveal"
                   /\ Len(r.res.results) = 8

\* the k-th (0-based) coordinate of the order "dx from -1 to 1 outer, dy from -1
\* to 1 inner" around (x, y)
NthNeighbour(x, y, k) == <<x + (k \div 3) - 1, y + (k % 3) - 1>>

OnBoard(c) == c[1] >= 0 /\ c[2] >= 0 /\ InRange(c[1], c[2])

RECURSIVE RevealsInOrder(_, _, _, _)
\* the outcomes of reveal at the neighbours 0..k of (x, y) in that order, each on
\* the squares the one before left; off the board: NoChange, nothing written
RevealsInOrder(st, x, y, k) ==
    IF k < 0 THEN <<>>
    ELSE LET before == RevealsInOrder(st, x, y, k - 1)
             prev == IF k = 0 THEN st ELSE before[k]
             c == NthNeighbour(x, y, k)
         IN  Append(before, IF OnBoard(c) THEN reveal(prev, c[1], c[2], Fuel)
                            ELSE Return(prev, NoChange))

\* C13: an allowed chord(x, y) returns CascadedReveal of exactly 9 sub-results,
\* sub-result k being the result of reveal at (x + k div 3 - 1, y + k mod 3 - 1)
\* (index 4: the chorded square itself) on the board the sub-results before it
\* left; an offset off the grid and a flagged square give NoChange, never an error.
C13_ChordResults ==
    pc = "idle" =>
        \A c \in BoardCoords :
            ChordAllowed(squares, c[1], c[2]) =>
                LET r == chord(Call(squares), c[1], c[2])
                    each == RevealsInOrder(Call(squares), c[1], c[2], 8)
                IN  /\ r.res.tag = "CascadedReveal"
                    /\ Len(r.res.results) = 9
                    /\ \A k \in 0..8 :
                          LET n == NthNeighbour(c[1], c[2], k)
                          IN  /\ r.res.results[k + 1] = each[k + 1].res
                              /\ r.res.results[k + 1].tag # "Err"
                              /\ ~OnBoard(n) => r.res.results[k + 1] = NoChange
                              /\ (OnBoard(n) /\ squares[xy_to_idx(n[1], n[2])].is_flagged)
                                    => r.res.results[k + 1] = NoChange
                    /\ r.sq = each[9].sq

\* C13's case: a chord on the corner (0,0) has returned 9 sub-results, among them
\* a Revealed and, for a flagged neighbour, NoChange
C13_Witness ==
    /\ pc = "idle"
    /\ last.op = "Chord" /\ last.x = 0 /\ last.y = 0
    /\ last.res.tag = "CascadedReveal"
    /\ Len(last.res.results) = 9
    /\ \E k \in 1..9 : last.res.results[k].tag = "Revealed"
    /\ \E k \in 1..9 :
          /\ OnBoard(NthNeighbour(0, 0, k - 1))
          /\ squares[xy_to_idx(NthNeighbour(0, 0, k - 1)[1], NthNeighbour(0, 0, k - 1)[2])].is_flagged
          /\ last.res.results[k] = NoChange

\* C14 (as stated): chord(x, y) on a square of the board whose numeral is not 0
\* and differs from the number of its flagged 8-neighbours returns NoChange and
\* leaves every square as it was.
C14_RefusedChordIsNoChange ==
    pc = "idle" =>
        \A c \in BoardCoords :
            LET i == xy_to_idx(c[1], c[2])
                r == chord(Call(squares), c[1], c[2])
            IN  (/\ squares[i].numeral # 0
                 /\ squares[i].numeral # TrueFlaggedNeighbours(squares, i))
                => /\ r.res = NoChange
                   /\ r.sq = squares

----------------------------------------------------------------------------
(* Claims on win and loss, flag, single reveals and errors *)

AllSafeRevealed == \A i \in DOMAIN squares : ~IsMine(squares[i]) => squares[i].is_revealed

NoMineRevealed == \A i \in DOMAIN squares : IsMine(squares[i]) => ~squares[i].is_revealed

\* C15: is_win_configuration() is true exactly when every non-mine square is
\* revealed, whatever is flagged; when moreover no mine is revealed,
\* is_loss_configuration() is false.
C15_WinIff ==
    pc = "idle" =>
        /\ is_win_configuration(squares) <=> AllSafeRevealed
        /\ (AllSafeRevealed /\ NoMineRevealed) =>
              (is_win_configuration(squares) /\ ~is_loss_configuration(squares))

\* C15's case: on the 3x3 board with one mine, flagged, a reveal has left all 8
\* other squares revealed
C15_Witness ==
    /\ RevealReturned
    /\ width = 3 /\ height = 3
    /\ MineCount(squares) = 1
    /\ AllSafeRevealed /\ NoMineRevealed
    /\ \E i \in DOMAIN squares : IsMine(squares[i]) /\ squares[i].is_flagged

\* the last call was flag(x, y) on a square of the board, and has returned
FlagReturned ==
    /\ pc = "idle"
    /\ last.op = "Flag"
    /\ InRange(last.x, last.y)

\* C16: on every unrevealed square of the board, flag(x, y) twice returns
\* Flagged(not f) then Flagged(f), f being the flag before; the square stays
\* unrevealed and the board after the two calls is the board before them.
C16_FlagRoundTrip ==
    pc = "idle" =>
        \A c \in BoardCoords :
            LET i == xy_to_idx(c[1], c[2])
                f == squares[i].is_flagged
                first == flag(Call(squares), c[1], c[2])
                second == flag(Call(first.sq), c[1], c[2])
            IN  ~squares[i].is_revealed =>
                   /\ first.res = Flagged(~f)
                   /\ first.sq = [squares EXCEPT ![i].is_flagged = ~f]
                   /\ second.res = Flagged(f)
                   /\ second.sq = squares

\* C16's case: a flag call has just cleared the flag an earlier one had set on
\* a mine, which is still unrevealed
C16_Witness ==
    /\ FlagReturned
    /\ last.res = Flagged(FALSE)
    /\ IsMine(Target) /\ ~Target.is_revealed /\ ~Target.is_flagged

\* C17: flag(x, y) on a revealed square of the board returns NoChange and leaves
\* the board as it is.
C17_FlagRevealedIsNoChange ==
    pc = "idle" =>
        /\ \A c \in BoardCoords :
              LET r == flag(Call(squares), c[1], c[2])
              IN  squares[xy_to_idx(c[1], c[2])].is_revealed =>
                     (r.res = NoChange /\ r.sq = squares)
        /\ (FlagReturned /\ Target.is_revealed) => last.res = NoChange

\* C17's case: flag has been called on a revealed square
C17_Witness ==
    /\ FlagReturned
    /\ Target.is_revealed
    /\ last.res = NoChange

\* C18: reveal(x, y) on an unrevealed, unflagged, non-mine square of numeral
\* greater than 0 returns Revealed(x, y) and sets is_revealed of that square;
\* no other square and no other field changes.
C18_SingleReveal ==
    pc = "idle" =>
        \A c \in BoardCoords :
            LET i == xy_to_idx(c[1], c[2])
                sqr == squares[i]
                r == reveal(Call(squares), c[1], c[2], Fuel)
            IN  (~sqr.is_revealed /\ ~sqr.is_flagged /\ ~IsMine(sqr) /\ sqr.numeral > 0)
                => /\ r.res = Revealed(c[1], c[2])
                   /\ r.sq = [squares EXCEPT ![i].is_revealed = TRUE]

\* C18's case: reveal(1, 0) on a numbered non-mine square has returned Revealed,
\* every other square still unrevealed
C18_Witness ==
    /\ RevealReturned
    /\ last.x = 1 /\ last.y = 0
    /\ last.res = Revealed(1, 0)
    /\ Target.numeral > 0 /\ ~IsMine(Target) /\ Target.is_revealed
    /\ \A i \in DOMAIN squares : i # xy_to_idx(1, 0) => ~squares[i].is_revealed

\* populate_mines_around has returned ExcessiveMines
ExcessiveReturned ==
    /\ last.op = "populate_mines_around"
    /\ last.res = Err("ExcessiveMines")

\* the error is returned for n > W*H and for no other n
ExcessiveIffTooMany ==
    /\ ExcessiveReturned => last.n > width * height
    /\ pc = "placing" => arg_n <= width * height

\* the call that returns ExcessiveMines changes nothing of the board
ExcessiveStep ==
    (pc = "idle" /\ pc' = "idle" /\ ExcessiveReturned') => UNCHANGED board

\* C19: populate_mines_around(n, kc) with n > W*H returns ExcessiveMines and
\* leaves the board as it was: no mine placed, num_mines and is_populated unchanged.
C19_ExcessiveMines == [](ExcessiveIffTooMany) /\ [][ExcessiveStep]_vars

\* C19's case: the call with n = W*H + 1 on the new 2x2 board has returned the
\* error; the board has no mine, num_mines = 0 and is_populated is false
C19_Witness ==
    /\ pc = "idle"
    /\ ExcessiveReturned
    /\ width = 2 /\ height = 2 /\ last.n = 5 /\ last.fresh
    /\ MineCount(squares) = 0 /\ num_mines = 0 /\ ~is_populated

\* coordinates past the right edge, past the bottom edge and past both
OutCoords == {<<width, 0>>, <<0, height>>, <<width, height>>, <<width + 1, height - 1>>}

InvalidCoordinates == Err("InvalidCoordinates")

\* a call that has returned st failed with InvalidCoordinates and wrote nothing
Rejected(st) == st.res = InvalidCoordinates /\ st.sq = squares

\* C20: for every coordinate with x >= W or y >= H, get_square, reveal, flag,
\* chord, can_chord_square, cascade_from and play in every mode return
\* InvalidCoordinates and leave the board unchanged.
C20_InvalidCoordinates ==
    pc = "idle" =>
        /\ \A c \in OutCoords :
              /\ get_square(squares, c[1], c[2]) = InvalidCoordinates
              /\ can_chord_square_result(squares, c[1], c[2]) = InvalidCoordinates
              /\ Rejected(reveal(Call(squares), c[1], c[2], Fuel))
              /\ Rejected(flag(Call(squares), c[1], c[2]))
              /\ Rejected(chord(Call(squares), c[1], c[2]))
              /\ Rejected(cascade_from(Call(squares), c[1], c[2], Fuel))
              /\ \A m \in RevealType : Rejected(play(squares, c[1], c[2], m))
        /\ (last.op \in RevealType \cup {"cascade_from"} /\ ~InRange(last.x, last.y))
              => last.res = InvalidCoordinates

\* C20's case: on a board with revealed and flagged squares, chord has been
\* called one column past the right edge and has returned the error
C20_Witness ==
    /\ pc = "idle"
    /\ last.op = "Chord" /\ last.x = width /\ last.y = 0
    /\ last.res = InvalidCoordinates
    /\ \E i \in DOMAIN squares : squares[i].is_revealed
    /\ \E i \in DOMAIN squares : squares[i].is_flagged

----------------------------------------------------------------------------
(* Claims on cascade_from's precondition, placement range and the resets *)

InvalidCascade == Err("InvalidCascade")

\* C21: cascade_from(x, y) on a square of the board that is a mine, is flagged
\* or has numeral greater than 0 returns InvalidCascade and leaves the board
\* unchanged.
C21_InvalidCascade ==
    pc = "idle" =>
        /\ \A c \in BoardCoords :
              LET sqr == squares[xy_to_idx(c[1], c[2])]
                  r == cascade_from(Call(squares), c[1], c[2], Fuel)
              IN  (IsMine(sqr) \/ sqr.is_flagged \/ sqr.numeral > 0)
                     => (r.res = InvalidCascade /\ r.sq = squares)
        /\ (/\ last.op = "cascade_from" /\ InRange(last.x, last.y)
            /\ (IsMine(Target) \/ Target.is_flagged \/ Target.numeral > 0))
              => last.res = InvalidCascade

\* C21's case: cascade_from has been called on a flagged, unrevealed square of
\* numeral 0 that is no mine, and has returned the error
C21_Witness ==
    /\ pc = "idle"
    /\ last.op = "cascade_from" /\ InRange(last.x, last.y)
    /\ last.res = InvalidCascade
    /\ Target.is_flagged /\ ~IsMine(Target) /\ Target.numeral = 0 /\ ~Target.is_revealed

\* C22 (as stated): placement draws from the whole index range: while mines are
\* still to be placed, every cell that may take one (not yet a mine, not
\* keep_clear), the last cell (W-1, H-1) included, is a cell the draw can give.
C22_DrawsWholeRange ==
    (pc = "placing" /\ mines_placed < arg_n) =>
        \A idx \in DOMAIN squares :
            Places(squares, keep_clear, idx) => idx \in DrawRange(squares)

\* C24 (as stated): after reset() the board is as new(width, height) makes it:
\* every square a default square, num_mines = 0, is_populated false.
C24_ResetIsNew ==
    (pc = "idle" /\ last.op = "reset") =>
        /\ squares = NewSquares(width, height)
        /\ num_mines = 0
        /\ is_populated = FALSE

-----------------------------------------------------------------------------
(* Reveal and chord on a board with computed numerals *)

RECURSIVE HasExplosion(_)
\* the result tree contains an Explosion at some depth
HasExplosion(res) ==
    IF res.tag = "Explosion" THEN TRUE
    ELSE IF res.tag = "CascadedReveal"
    THEN \E k \in DOMAIN res.results : HasExplosion(res.results[k])
    ELSE FALSE

\* the mines of the board are revealed in st exactly as they are now
MinesAsBefore(st) ==
    \A i \in DOMAIN squares :
        IsMine(squares[i]) => st.sq[i].is_revealed = squares[i].is_revealed

\* C28: once populate_numerals has run on the placed mines, reveal(x, y) on a
\* non-mine square marks no mine revealed and returns a result tree without
\* an Explosion at any depth, whatever is flagged and whatever was played.
C28_RevealSparesMines ==
    GameReady =>
        \A c \in BoardCoords :
            ~IsMine(squares[xy_to_idx(c[1], c[2])]) =>
                LET r == reveal(Call(squares), c[1], c[2], Fuel)
                IN  /\ ~r.div
                    /\ ~HasExplosion(r.res)
                    /\ MinesAsBefore(r)

C28_Witness ==
    /\ GameReady
    /\ RevealReturned
    /\ ~IsMine(Target)
    /\ last.res.tag = "CascadedReveal"
    /\ MineCount(squares) > 0
    /\ NoMineRevealed
    /\ \E i \in DOMAIN squares : squares[i].is_flagged /\ ~IsMine(squares[i])

\* the flagged squares among the neighbours of square i are exactly its mine
\* neighbours
FlagsAreMines(i) ==
    \A j \in DOMAIN squares :
        Adjacent(i, j) => (squares[j].is_flagged <=> IsMine(squares[j]))

\* C29: with computed numerals, chord(x, y) on a revealed non-mine square
\* whose flagged neighbours are exactly its mine neighbours reveals no mine,
\* returns no Explosion, and leaves every unflagged neighbour revealed.
C29_SafeChord ==
    GameReady =>
        \A c \in BoardCoords :
            LET i == xy_to_idx(c[1], c[2])
            IN  (squares[i].is_revealed /\ ~IsMine(squares[i]) /\ FlagsAreMines(i)) =>
                    LET r == chord(Call(squares), c[1], c[2])
                    IN  /\ ~r.div
                        /\ r.res.tag = "CascadedReveal"
                        /\ ~HasExplosion(r.res)
                        /\ MinesAsBefore(r)
                        /\ \A j \in DOMAIN squares :
                              (Adjacent(i, j) /\ ~squares[j].is_flagged) =>
                                  r.sq[j].is_revealed

C29_Witness ==
    /\ GameReady
    /\ last.op = "Chord" /\ InRange(last.x, last.y)
    /\ Target.is_revealed /\ ~IsMine(Target) /\ Target.numeral > 0
    /\ FlagsAreMines(xy_to_idx(last.x, last.y))
    /\ last.res.tag = "CascadedReveal"
    /\ \E k \in DOMAIN last.res.results :
          last.res.results[k].tag \in {"Revealed", "CascadedReveal"}
    /\ \A j \in DOMAIN squares :
          (Adjacent(xy_to_idx(last.x, last.y), j) /\ ~squares[j].is_flagged) =>
              squares[j].is_revealed
    /\ NoMineRevealed

\* neither query is true: the game is still open
GameOpen(sq) == ~is_win_configuration(sq) /\ ~is_loss_configuration(sq)

\* C30: on a populated board with computed numerals, a play made while
\* neither is_win_configuration() nor is_loss_configuration() is true never
\* leaves both true: no single play detonates a mine and completes the reveal
\* of all non-mine squares.
C30_NeverWinAndLoss ==
    [][(GameReady /\ pc' = "idle" /\ GameOpen(squares)) =>
          ~(is_win_configuration(squares') /\ is_loss_configuration(squares'))]_vars

C30_Witness ==
    /\ GameReady
    /\ last.op = "Chord" /\ InRange(last.x, last.y)
    /\ HasExplosion(last.res)
    /\ is_loss_configuration(squares)
    /\ ~is_win_configuration(squares)
    /\ Cardinality({i \in DOMAIN squares : IsMine(squares[i]) /\ squares[i].is_revealed}) = 1
    /\ Cardinality({i \in DOMAIN squares : ~IsMine(squares[i]) /\ ~squares[i].is_revealed}) = 1

-----------------------------------------------------------------------------
(* The application's frames *)

\* the last frame was Ctrl+R: reset_existing_game, and so reset_existing
ResetExistingFrame == last.op = "on_update" /\ last.key = "ctrl_r"

\* C23: reset_existing() leaves every square unrevealed and unflagged, and
\* leaves each square's mine and numeral, num_mines, is_populated, width and
\* height as they were.
C23_ResetExistingFrame ==
    [][ResetExistingFrame' =>
          /\ \A i \in DOMAIN squares' :
                /\ ~squares'[i].is_revealed
                /\ ~squares'[i].is_flagged
          /\ DOMAIN squares' = DOMAIN squares
          /\ \A i \in DOMAIN squares :
                /\ squares'[i].square_type = squares[i].square_type
                /\ squares'[i].numeral = squares[i].numeral
          /\ num_mines' = num_mines
          /\ is_populated' = is_populated
          /\ width' = width
          /\ height' = height]_vars

C23_Witness ==
    /\ ResetExistingFrame
    /\ is_populated
    /\ MineCount(squares) = num_mines /\ num_mines > 0
    /\ \E i \in DOMAIN squares : squares[i].numeral > 0
    /\ \A i \in DOMAIN squares : ~squares[i].is_revealed /\ ~squares[i].is_flagged
    /\ detonated_on.some

\* the last frame's status_ui took the win branch: flag_all_mines ran on the
\* board last.checked.sq
WinFrame == last.op = "on_update" /\ last.status = "win"

\* C25: flag_all_mines() in a win configuration with no mine revealed leaves
\* is_revealed of every square as it was; afterwards a square is flagged iff
\* it is a mine, num_flags() is the number of mines, no revealed square is
\* flagged and is_win_configuration() is still true.
C25_FlagAllMinesOnWin ==
    (WinFrame /\ is_win_configuration(last.checked.sq)
              /\ ~is_loss_configuration(last.checked.sq)) =>
        /\ \A i \in DOMAIN squares :
              /\ squares[i].is_revealed = last.checked.sq[i].is_revealed
              /\ squares[i].is_flagged <=> IsMine(squares[i])
              /\ ~(squares[i].is_revealed /\ squares[i].is_flagged)
        /\ num_flags(squares) = MineCount(squares)
        /\ is_win_configuration(squares)

C25_Witness ==
    /\ WinFrame
    /\ game_state = "EndedWin"
    /\ MineCount(squares) > 0
    /\ num_flags(last.checked.sq) = 0
    /\ num_flags(squares) = MineCount(squares)
    /\ AllSafeRevealed /\ NoMineRevealed

\* the last frame started a game: game_state went from NotStarted to Playing
\* on a click of (last.click.x, last.click.y)
StartFrame == last.op = "on_update" /\ last.started

\* C26 (as stated): each time a click starts a game, after a new game and
\* after reset_existing_game alike, the clicked square is not a mine and the
\* reveal of that click returns no Explosion.
C26_FirstClickSafe ==
    StartFrame =>
        /\ ~IsMine(squares[xy_to_idx(last.click.x, last.click.y)])
        /\ ~HasExplosion(last.res)

\* status_ui of the last frame found the game Playing on a board that is a
\* loss configuration and a win configuration at once
CheckedWinAndLoss ==
    /\ last.op = "on_update"
    /\ last.checked.gs = "Playing"
    /\ is_loss_configuration(last.checked.sq)
    /\ is_win_configuration(last.checked.sq)

\* C27: when the game is Playing and the board is a loss configuration and a
\* win configuration at the status check, game_state becomes EndedLoss, not
\* EndedWin, and flag_all_mines is not run.
C27_LossFirst ==
    CheckedWinAndLoss =>
        /\ game_state = "EndedLoss"
        /\ last.status = "loss"
        /\ squares = last.checked.sq

C27_Witness ==
    /\ CheckedWinAndLoss
    /\ game_state = "EndedLoss"
    /\ squares # flag_all_mines(squares)
    /\ \E i \in DOMAIN squares : IsMine(squares[i]) /\ squares[i].is_revealed
    /\ \A i \in DOMAIN squares : ~IsMine(squares[i]) => squares[i].is_revealed

-----------------------------------------------------------------------------
(* What a play reports and what it changes *)

\* res is Explosion(x, y) or a CascadedReveal with Explosion(x, y) among its
\* direct elements
ReportsExplosion(res, x, y) ==
    \/ res = Explosion(x, y)
    \/ /\ res.tag = "CascadedReveal"
       /\ \E k \in DOMAIN res.results : res.results[k] = Explosion(x, y)

\* the mines that st has revealed and the board has not
NewMines(st) ==
    {i \in DOMAIN squares :
        IsMine(squares[i]) /\ st.sq[i].is_revealed /\ ~squares[i].is_revealed}

\* C31: on a board with computed numerals, every mine a play newly reveals is
\* reported as an Explosion that is the result itself or a direct element of
\* the returned CascadedReveal, so first_losing_square finds a detonation
\* whenever a play reveals a mine.
C31_ExplosionsReported ==
    GameReady =>
        \A c \in BoardCoords, p \in RevealType :
            LET r == play(squares, c[1], c[2], p)
            IN  /\ \A i \in NewMines(r) :
                      ReportsExplosion(r.res, i % width, i \div width)
                /\ NewMines(r) # {} => first_losing_square(r.res).some

C31_Witness ==
    /\ GameReady
    /\ last.op = "Chord" /\ InRange(last.x, last.y)
    /\ last.res.tag = "CascadedReveal"
    /\ ~IsMine(Target)
    /\ Target.numeral = flagged_neighbor_count(squares, last.x, last.y)
    /\ \E i, j \in DOMAIN squares :
          /\ Adjacent(xy_to_idx(last.x, last.y), i)
          /\ Adjacent(xy_to_idx(last.x, last.y), j)
          /\ squares[i].is_flagged /\ ~IsMine(squares[i])
          /\ IsMine(squares[j]) /\ squares[j].is_revealed
          /\ ReportsExplosion(last.res, j % width, j \div width)
          /\ first_losing_square(last.res) = Some(j % width, j \div width)

\* the step is a call of play(x, y, reveal_type) that returned
PlayStep == pc = "idle" /\ pc' = "idle" /\ last'.op \in RevealType

\* C32: play(Reveal) and play(Chord) change is_flagged of no square;
\* play(Flag) changes at most is_flagged of the addressed square; no play
\* changes the mine or numeral of a square, num_mines, is_populated, width
\* or height; no play turns is_revealed from true to false, so a loss
\* configuration stays one.
C32_PlayFrame ==
    [][PlayStep =>
          /\ DOMAIN squares' = DOMAIN squares
          /\ last'.op \in {"Reveal", "Chord"} =>
                \A i \in DOMAIN squares :
                    squares'[i].is_flagged = squares[i].is_flagged
          /\ last'.op = "Flag" =>
                \A i \in DOMAIN squares :
                    /\ squares'[i].is_revealed = squares[i].is_revealed
                    /\ squares'[i].is_flagged # squares[i].is_flagged =>
                          /\ InRange(last'.x, last'.y)
                          /\ i = xy_to_idx(last'.x, last'.y)
          /\ \A i \in DOMAIN squares :
                /\ squares'[i].square_type = squares[i].square_type
                /\ squares'[i].numeral = squares[i].numeral
                /\ squares[i].is_revealed => squares'[i].is_revealed
          /\ num_mines' = num_mines
          /\ is_populated' = is_populated
          /\ width' = width
          /\ height' = height
          /\ is_loss_configuration(squares) => is_loss_configuration(squares')]_vars

C32_Witness ==
    /\ pc = "idle"
    /\ last.op = "Chord" /\ InRange(last.x, last.y)
    /\ last.res.tag = "CascadedReveal"
    /\ \E k \in DOMAIN last.res.results : last.res.results[k].tag = "Revealed"
    /\ \E i \in DOMAIN squares : squares[i].is_flagged /\ ~squares[i].is_revealed
    /\ is_loss_configuration(squares)
    /\ NumeralsComputed

\* C33 (as stated): while game_state is NotStarted on a board that start_game
\* has not populated, whatever was clicked, no square is revealed.
C33_NothingRevealedBeforeStart ==
    (game_state = "NotStarted" /\ ~is_populated) =>
        \A i \in DOMAIN squares : ~squares[i].is_revealed

\* C34: once game_state is EndedLoss or EndedWin, a frame without a reset
\* dispatches neither start_game nor a play and leaves the board and
\* game_state as they are; a frame with Ctrl+N, Ctrl+R or a click on the
\* face sets game_state to NotStarted.
C34_EndedIsAbsorbing ==
    [][(game_state \in {"EndedLoss", "EndedWin"} /\ last'.op = "on_update") =>
          IF last'.key = "none"
          THEN /\ ~last'.started
               /\ last'.res = NoCall
               /\ squares' = squares
               /\ game_state' = game_state
               /\ UNCHANGED <<num_mines, is_populated, detonated_on>>
          ELSE game_state' = "NotStarted"]_vars

C34_Witness ==
    /\ game_state = "EndedLoss"
    /\ last.op = "on_update" /\ last.key = "none"
    /\ last.click.some /\ last.click.button = "Primary"
    /\ ~squares[xy_to_idx(last.click.x, last.click.y)].is_revealed
    /\ ~last.started
    /\ last.res = NoCall
    /\ detonated_on.some

====
